---- MODULE Spec2Model ----
(***************************************************************************)
(* Model of addon/-private/task.js (ember-concurrency): the Task class,    *)
(* its perform / curry / clone operations and its owner-bound teardown.    *)
(*                                                                         *)
(* task.js is modelled from its code.  The collaborators it imports        *)
(* (BaseTask.cancelAll, TaskInstance and its cancel cascade, the           *)
(* scheduler, the executor, the derived task state, the owner's            *)
(* destruction lifecycle) are not part of the source at hand and are       *)
(* modelled from the specification's sections 3-6.                         *)
(***************************************************************************)
EXTENDS Integers, Sequences, FiniteSets, TLC

\* ------------------------------------------------------------- bounds
\* Spec: every operation, two owners
MaxTasks == 3
MaxInstances == 2
\* SpecDeep: one task, deeper instance histories and link chains
MaxDeepInstances == 3
\* SpecCurry: curry chains and the arguments of the performs on them
MaxCurryTasks == 4
MaxCurryInstances == 1
\* SpecEncap: performs on an encapsulated task and its clones, view requests
MaxEncapTasks == 3
MaxEncapInstances == 2
MaxViewRequests == 3
\* SpecView: reads and writes through the merged view of one instance
MaxViewInstances == 1

\* ---------------------------------------------------------- constants
null == 0
Undefined == <<-1>>     \* a task whose _curryArgs property was never set

PERFORM_TYPE_DEFAULT == "DEFAULT"
PERFORM_TYPE_LINKED == "LINKED"
PERFORM_TYPE_UNLINKED == "UNLINKED"
PerformTypes == {PERFORM_TYPE_DEFAULT, PERFORM_TYPE_LINKED, PERFORM_TYPE_UNLINKED}

CANCEL_KIND_LIFESPAN_END == "lifespan_end"
CANCEL_KIND_EXPLICIT == "explicit"
NoKind == "none"

LifespanReason == "the object it lives on was destroyed or unrendered"
CancelAllReason == ".cancelAll() was explicitly called on the Task"
CancelReason == ".cancel() was explicitly called"
NoReason == "none"

Waiting == "waiting"
Running == "running"
Succeeded == "succeeded"
Errored == "errored"
Canceled == "canceled"
Terminal == {Succeeded, Errored, Canceled}

Owners == {"o1", "o2"}
CurryArgLists == {<<1>>, <<2>>}
CallArgLists == {<<>>, <<3>>}
OneCurry == {<<1>>}
OneCall == {<<3>>}

\* property keys are strings or symbols
str(n) == [kind |-> "string", name |-> n]
sym(n) == [kind |-> "symbol", name |-> n]
SymbolDescriptiveString(n) == IF n = "tag" THEN "Symbol(tag)" ELSE "Symbol()"
\* prop.toString()
toString(prop) ==
    IF prop.kind = "symbol" THEN str(SymbolDescriptiveString(prop.name)) ELSE prop
Keys ==
    {str("value"), str("cancel"), str("progress"), str("perform"), str("context"),
     str("Symbol(tag)"), sym("tag")}
\* the order in which own keys are listed: strings first, then symbols
KeyOrder ==
    <<str("value"), str("cancel"), str("progress"), str("perform"), str("context"),
      str("Symbol(tag)"), sym("tag")>>
undefined == -1
Method == 9      \* the value of a key that holds a function
\* the keys a caller writes through the view, the keys a work routine sets on
\* its delegate, and the values written
ViewWriteKeys == {str("value"), str("progress"), str("cancel"), sym("tag")}
DelegateWriteKeys == {str("value"), str("Symbol(tag)"), sym("tag")}
ViewWriteValue == 5
DelegateWriteValue == 7

VARIABLES
    tasks,        \* Seq of Task objects: [context, name, scheduler, group, curryArgs]
    taskState,    \* Seq, per Task: its derived state (last*, performCount, counters)
    destroying,   \* [Owners -> BOOLEAN]: isDestroying(owner)
    destructors,  \* [Owners -> Seq of task ids]: callbacks registered with the owner
    instances,    \* Seq of TaskInstance objects
    sched,        \* [scheduler id -> Seq of instance ids]: instances handed over
    completed,    \* history: instance ids in the order they reached a terminal state
    curryLog,     \* history, per Task: the curry call that made it [receiver, args]
    calls,        \* history, per instance: the perform call that made it
    impls,        \* Seq of delegate objects (encapsulatedTaskImpl)
    encapsulatedTaskStates,
                  \* per EncapsulatedTask: WeakMap instance -> delegate
    encapsulatedTaskInstanceProxies,
                  \* per EncapsulatedTask: WeakMap instance -> proxy
    proxies,      \* Seq of Proxy objects: [target, encapsulatedTaskImpl]
    returned,     \* history, per perform: the object _taskInstanceFactory returned
    admitted,     \* history: what each scheduler.perform call was given
    viewLog       \* history: the requests for a merged view and their results

vars == <<tasks, taskState, destroying, destructors, instances, sched, completed, curryLog,
          calls, impls, encapsulatedTaskStates, encapsulatedTaskInstanceProxies, proxies,
          returned, admitted, viewLog>>

TaskIds == 1..Len(tasks)
InstanceIds == 1..Len(instances)

\* ------------------------------------------- derived state (aggregator)
InitialTaskState ==
    [last |-> null, lastPerformed |-> null,
     lastSuccessful |-> null, lastErrored |-> null,
     lastCanceled |-> null, lastComplete |-> null,
     performCount |-> 0, numRunning |-> 0, numQueued |-> 0]

\* a bookkeeping that takes the performed instance for the started one
onPerformed_SetsLast(ts, t, i) == [ts EXCEPT ![t].lastPerformed = i, ![t].last = i]

\* lastPerformed: "the most recently performed task instance"
onPerformed(ts, t, i) == [ts EXCEPT ![t].lastPerformed = i]

\* last: "the most recently started task instance"
onStart(ts, t, i) == [ts EXCEPT ![t].last = i]

onCreated(ts, t, i) ==
    [onPerformed(ts, t, i) EXCEPT ![t].performCount = @ + 1,
                                  ![t].numQueued = @ + 1]

\* an aggregator that does not count a cancel as a completion
onTransition_CancelNotComplete(ts, t, i, from, to) ==
    [(IF to = Running THEN onStart(ts, t, i) ELSE ts)
        EXCEPT ![t].numQueued = IF from = Waiting THEN @ - 1 ELSE @,
               ![t].numRunning = @ + (IF to = Running THEN 1 ELSE 0)
                                      - (IF from = Running THEN 1 ELSE 0),
               ![t].lastSuccessful = IF to = Succeeded THEN i ELSE @,
               ![t].lastErrored = IF to = Errored THEN i ELSE @,
               ![t].lastCanceled = IF to = Canceled THEN i ELSE @,
               ![t].lastComplete = IF to \in {Succeeded, Errored} THEN i ELSE @]

\* an aggregator that takes an instance out of the queue only when it starts
onTransition_QueuedUntilStarted(ts, t, i, from, to) ==
    [(IF to = Running THEN onStart(ts, t, i) ELSE ts)
        EXCEPT ![t].numQueued = IF from = Waiting /\ to = Running THEN @ - 1 ELSE @,
               ![t].numRunning = @ + (IF to = Running THEN 1 ELSE 0)
                                      - (IF from = Running THEN 1 ELSE 0),
               ![t].lastSuccessful = IF to = Succeeded THEN i ELSE @,
               ![t].lastErrored = IF to = Errored THEN i ELSE @,
               ![t].lastCanceled = IF to = Canceled THEN i ELSE @,
               ![t].lastComplete = IF to \in Terminal THEN i ELSE @]

onTransition(ts, t, i, from, to) ==
    [(IF to = Running THEN onStart(ts, t, i) ELSE ts)
        EXCEPT ![t].numQueued = IF from = Waiting THEN @ - 1 ELSE @,
               ![t].numRunning = @ + (IF to = Running THEN 1 ELSE 0)
                                      - (IF from = Running THEN 1 ELSE 0),
               ![t].lastSuccessful = IF to = Succeeded THEN i ELSE @,
               ![t].lastErrored = IF to = Errored THEN i ELSE @,
               ![t].lastCanceled = IF to = Canceled THEN i ELSE @,
               ![t].lastComplete = IF to \in Terminal THEN i ELSE @]

isRunning(ts, t) == ts[t].numRunning > 0
isQueued(ts, t) == ts[t].numQueued > 0
isIdle(ts, t) == ~isRunning(ts, t) /\ ~isQueued(ts, t)
state(ts, t) ==
    IF isRunning(ts, t) THEN "running"
    ELSE IF isQueued(ts, t) THEN "queued" ELSE "idle"

\* ------------------------------------------------------------ objects
\* An object is [own, proto]: its own properties and those it inherits, each
\* a function from keys to values.
HasOwn(o, prop) == prop \in DOMAIN o.own
In(o, prop) == HasOwn(o, prop) \/ prop \in DOMAIN o.proto
GetProp(o, prop) ==
    IF HasOwn(o, prop) THEN o.own[prop]
    ELSE IF prop \in DOMAIN o.proto THEN o.proto[prop] ELSE undefined
ReflectOwnKeys(o) == SelectSeq(KeyOrder, LAMBDA k : HasOwn(o, k))
ReflectDefineProperty(o, prop, v) == [o EXCEPT !.own = (prop :> v) @@ o.own]
ReflectGetOwnPropertyDescriptor(o, prop) ==
    IF HasOwn(o, prop) THEN o.own[prop] ELSE undefined
\* get(obj, keyName) of @ember/object, keyName a string
emberGet(o, keyName) == GetProp(o, keyName)

\* ------------------------------------------------------- TaskInstance
\* The heap h handed through the operators below is the record
\* [inst, ts, log, sched] of the instances, the tasks' derived state, the
\* completion history and the schedulers' lists.
\* own: the instance's own properties a caller reaches by key (value is one
\* of them); the methods (cancel) are on the prototype
TaskInstanceOwn == (str("value") :> null)
TaskInstancePrototype == (str("cancel") :> Method)

TaskInstance(t, args, executor, performType) ==
    [task |-> t, args |-> args, executor |-> executor, performType |-> performType,
     state |-> Waiting, parent |-> null,
     cancelReason |-> NoReason, cancelKind |-> NoKind,
     expectsLinkedYield |-> FALSE,
     own |-> TaskInstanceOwn]

isFinished(ti) == ti.state \in Terminal

setState(h, i, to) ==
    [h EXCEPT !.inst[i].state = to,
              !.ts = onTransition(h.ts, h.inst[i].task, i, h.inst[i].state, to),
              !.log = IF to \in Terminal THEN Append(h.log, i) ELSE h.log]

linkedChildren(inst, i) ==
    {c \in 1..Len(inst) : inst[c].parent = i /\ inst[c].performType = PERFORM_TYPE_LINKED}

RECURSIVE cancel(_, _, _, _), cancelEach(_, _, _, _)

\* a cancel that does not test for an instance that has already finished
cancel_NotIdempotent(h, i, reason, kind) ==
    LET h1 == setState([h EXCEPT !.inst[i].cancelReason = reason,
                                 !.inst[i].cancelKind = kind], i, Canceled)
    IN cancelEach(h1, linkedChildren(h1.inst, i), reason, kind)

\* cancel(instance, reason, source): idempotent, cascades over Linked children
cancel(h, i, reason, kind) ==
    IF isFinished(h.inst[i]) THEN h
    ELSE LET h1 == setState([h EXCEPT !.inst[i].cancelReason = reason,
                                      !.inst[i].cancelKind = kind], i, Canceled)
         IN cancelEach(h1, linkedChildren(h1.inst, i), reason, kind)

cancelEach(h, S, reason, kind) ==
    IF S = {} THEN h
    ELSE LET i == CHOOSE x \in S : \A y \in S : x <= y
         IN cancelEach(cancel(h, i, reason, kind), S \ {i}, reason, kind)

\* a start that does not test the instance's state
start_Unguarded(h, i) == setState(h, i, Running)

start(h, i) ==
    IF h.inst[i].state = Waiting THEN setState(h, i, Running) ELSE h

finalize(h, i, to) ==
    IF h.inst[i].state = Running THEN setState(h, i, to) ELSE h

\* The parent's work routine yields the child: the link is established.
onYielded(h, p, c) == [h EXCEPT !.inst[c].parent = p]

\* ------------------------------------------------- BaseTask / Scheduler
liveInstances(h, t) ==
    {i \in 1..Len(h.inst) : h.inst[i].task = t /\ ~isFinished(h.inst[i])}

\* a cancelAll that leaves the queued instances alone
cancelAll_RunningOnly(h, t, reason, kind, resetState) ==
    LET h1 == cancelEach(h, {i \in liveInstances(h, t) : h.inst[i].state = Running},
                         reason, kind)
    IN IF resetState
       THEN [h1 EXCEPT !.ts[t] = InitialTaskState,
                       !.log = SelectSeq(h1.log, LAMBDA i : h1.inst[i].task # t)]
       ELSE h1

cancelAll(h, t, reason, kind, resetState) ==
    LET h1 == cancelEach(h, liveInstances(h, t), reason, kind)
    IN IF resetState
       THEN [h1 EXCEPT !.ts[t] = InitialTaskState,
                       !.log = SelectSeq(h1.log, LAMBDA i : h1.inst[i].task # t)]
       ELSE h1

\* scheduler.perform(taskInstance): the scheduler takes the instance as it is
\* at the call
schedulerPerform(h, s, i) ==
    [h EXCEPT !.sched[s] = Append(@, i),
              !.admitted = Append(@, [instance |-> i, state |-> h.inst[i].state])]

\* -------------------------------------------------------------- Task
TaskClass == "Task"
EncapsulatedTaskClass == "EncapsulatedTask"
NoTaskObj == <<>>

\* constructor: super(options), then the destructor registration
TaskConstructor(w, destr, options) ==
    LET id == Len(w.tasks) + 1
    IN [w EXCEPT
          !.tasks = Append(@, [class |-> TaskClass,
                               context |-> options.context, name |-> options.name,
                               scheduler |-> options.scheduler, group |-> options.group,
                               curryArgs |-> Undefined, taskObj |-> NoTaskObj]),
          !.ts = Append(@, InitialTaskState),
          !.dtors = IF ~destr[options.context]
                    THEN [w.dtors EXCEPT ![options.context] = Append(@, id)]
                    ELSE w.dtors]

\* EncapsulatedTask constructor: super(options), taskObj, the two WeakMaps
EncapsulatedTaskConstructor(w, destr, options) ==
    LET w1 == TaskConstructor(w, destr, options)
        id == Len(w1.tasks)
    IN [w1 EXCEPT !.tasks[id].class = EncapsulatedTaskClass,
                  !.tasks[id].taskObj = options.taskObj,
                  !.states = (id :> <<>>) @@ @,
                  !.proxyOf = (id :> <<>>) @@ @]

\* a callback that also asks cancelAll to reset the task's state
destructor_ResetsState(h, t) ==
    cancelAll(h, t, LifespanReason, CANCEL_KIND_LIFESPAN_END, TRUE)

\* the callback registered by the constructor (no resetState: it is false)
destructor(h, t) ==
    cancelAll(h, t, LifespanReason, CANCEL_KIND_LIFESPAN_END, FALSE)

\* the executor's generatorFactory: the routine it runs and its arguments
TaskRoutine(t, args) == [holder |-> "task", of |-> t, args |-> args]
DelegateRoutine(d, args) == [holder |-> "delegate", of |-> d, args |-> args]

\* the object a factory returned
InstanceRef(i) == [kind |-> "TaskInstance", id |-> i]
ProxyRef(p) == [kind |-> "Proxy", id |-> p]

\* a factory that does not pass performType on to the instance
taskInstanceFactory_DropsPerformType(h, t, args, performType) ==
    LET i == Len(h.inst) + 1
    IN [h EXCEPT !.inst = Append(@, TaskInstance(t, args, TaskRoutine(t, args),
                                                 PERFORM_TYPE_DEFAULT)),
                 !.ts = onCreated(h.ts, t, i),
                 !.returned = Append(@, InstanceRef(i))]

\* Task#_taskInstanceFactory(args, performType)
taskInstanceFactory(h, t, args, performType) ==
    LET i == Len(h.inst) + 1
    IN [h EXCEPT !.inst = Append(@, TaskInstance(t, args, TaskRoutine(t, args),
                                                 performType)),
                 !.ts = onCreated(h.ts, t, i),
                 !.returned = Append(@, InstanceRef(i))]

\* ------------------------------------------------- EncapsulatedTask
\* the target of a proxy as an object
InstanceObject(ti) == [own |-> ti.own, proto |-> TaskInstancePrototype]

\* Proxy handler get(obj, prop)
proxyGet(obj, encapsulatedTaskImpl, prop) ==
    IF In(obj, prop) THEN GetProp(obj, prop)
    ELSE emberGet(encapsulatedTaskImpl, toString(prop))

\* Proxy handler has(obj, prop)
proxyHas(obj, encapsulatedTaskImpl, prop) ==
    In(obj, prop) \/ In(encapsulatedTaskImpl, prop)

\* Proxy handler ownKeys(obj)
proxyOwnKeys(obj, encapsulatedTaskImpl) ==
    ReflectOwnKeys(obj) \o ReflectOwnKeys(encapsulatedTaskImpl)

\* Proxy handler defineProperty(obj, prop, descriptor), descriptor a data
\* descriptor of value v; the result is the pair of objects after the call
proxyDefineProperty(obj, encapsulatedTaskImpl, prop, v) ==
    IF In(obj, prop)
    THEN [obj |-> ReflectDefineProperty(obj, prop, v), impl |-> encapsulatedTaskImpl]
    ELSE [obj |-> obj, impl |-> ReflectDefineProperty(encapsulatedTaskImpl, prop, v)]

\* Proxy handler getOwnPropertyDescriptor(obj, prop)
proxyGetOwnPropertyDescriptor(obj, encapsulatedTaskImpl, prop) ==
    IF In(obj, prop) THEN ReflectGetOwnPropertyDescriptor(obj, prop)
    ELSE ReflectGetOwnPropertyDescriptor(encapsulatedTaskImpl, prop)

\* a wrapper that builds a new proxy on every call
wrappedEncapsulatedTaskInstance_NoMemo(h, t, taskInstance) ==
    IF taskInstance = null THEN h
    ELSE LET proxy == Len(h.proxies) + 1
             encapsulatedTaskImpl == h.states[t][taskInstance]
         IN [h EXCEPT !.proxies = Append(@, [target |-> taskInstance,
                                             encapsulatedTaskImpl |-> encapsulatedTaskImpl]),
                      !.proxyOf[t] = (taskInstance :> proxy) @@ @]

\* an assignment view[prop] = v: the Proxy has no set handler, so the
\* engine asks getOwnPropertyDescriptor for the property and then defines
\* it through defineProperty, as an update or as a new data property
proxySet(obj, encapsulatedTaskImpl, prop, v) ==
    IF proxyGetOwnPropertyDescriptor(obj, encapsulatedTaskImpl, prop) # undefined
    THEN proxyDefineProperty(obj, encapsulatedTaskImpl, prop, v)
    ELSE proxyDefineProperty(obj, encapsulatedTaskImpl, prop, v)

\* EncapsulatedTask#_wrappedEncapsulatedTaskInstance(taskInstance): the heap
\* after the call; the proxy it returns is h.proxyOf[t][taskInstance]
wrappedEncapsulatedTaskInstance(h, t, taskInstance) ==
    IF taskInstance = null THEN h
    ELSE IF taskInstance \in DOMAIN h.proxyOf[t] THEN h
    ELSE LET proxy == Len(h.proxies) + 1
             encapsulatedTaskImpl == h.states[t][taskInstance]
         IN [h EXCEPT !.proxies = Append(@, [target |-> taskInstance,
                                             encapsulatedTaskImpl |-> encapsulatedTaskImpl]),
                      !.proxyOf[t] = (taskInstance :> proxy) @@ @]

\* EmberObject.extend(this.taskObj).create({ context: this.context })
createEncapsulatedTaskImpl(taskObj, context) ==
    [own |-> (str("context") :> context), proto |-> taskObj]

\* EncapsulatedTask#_taskInstanceFactory(args, performType)
encapsulatedTaskInstanceFactory(h, tk, t, args, performType) ==
    LET i == Len(h.inst) + 1
        encapsulatedTaskImpl == Len(h.impls) + 1
        h1 == [h EXCEPT
                 !.impls = Append(@, createEncapsulatedTaskImpl(tk[t].taskObj,
                                                                tk[t].context)),
                 !.inst = Append(@, TaskInstance(t, args,
                                     DelegateRoutine(encapsulatedTaskImpl, args),
                                     performType)),
                 !.ts = onCreated(h.ts, t, i),
                 !.states[t] = (i :> encapsulatedTaskImpl) @@ @]
        h2 == wrappedEncapsulatedTaskInstance(h1, t, i)
    IN [h2 EXCEPT !.returned = Append(@, ProxyRef(h2.proxyOf[t][i]))]

\* this._taskInstanceFactory(...): the method of the receiver's class
dispatchTaskInstanceFactory(h, tk, t, args, performType) ==
    IF tk[t].class = EncapsulatedTaskClass
    THEN encapsulatedTaskInstanceFactory(h, tk, t, args, performType)
    ELSE taskInstanceFactory(h, t, args, performType)

\* ------------------------------------------------- perform, curry
\* perform without the isDestroying check
performShared_NoDestroyingCheck(h, tk, destr, t, args, performType, linkedObject) ==
    LET fullArgs == IF tk[t].curryArgs # Undefined
                    THEN tk[t].curryArgs \o args ELSE args
        h1 == dispatchTaskInstanceFactory(h, tk, t, fullArgs, performType)
        taskInstance == Len(h1.inst)
        h2 == IF performType = PERFORM_TYPE_LINKED
              THEN [h1 EXCEPT !.inst[linkedObject].expectsLinkedYield = TRUE]
              ELSE h1
    IN schedulerPerform(h2, tk[t].scheduler, taskInstance)

\* perform that hands the instance over before it looks at the owner
performShared_CancelAfterHandOver(h, tk, destr, t, args, performType, linkedObject) ==
    LET fullArgs == IF tk[t].curryArgs # Undefined
                    THEN tk[t].curryArgs \o args ELSE args
        h1 == dispatchTaskInstanceFactory(h, tk, t, fullArgs, performType)
        taskInstance == Len(h1.inst)
        h2 == IF performType = PERFORM_TYPE_LINKED
              THEN [h1 EXCEPT !.inst[linkedObject].expectsLinkedYield = TRUE]
              ELSE h1
        h3 == schedulerPerform(h2, tk[t].scheduler, taskInstance)
    IN IF destr[tk[t].context]
       THEN cancel(h3, taskInstance, CancelReason, CANCEL_KIND_EXPLICIT)
       ELSE h3

\* perform that flags the new instance instead of linkedObject
performShared_FlagsNewInstance(h, tk, destr, t, args, performType, linkedObject) ==
    LET fullArgs == IF tk[t].curryArgs # Undefined
                    THEN tk[t].curryArgs \o args ELSE args
        h1 == dispatchTaskInstanceFactory(h, tk, t, fullArgs, performType)
        taskInstance == Len(h1.inst)
        h2 == IF performType = PERFORM_TYPE_LINKED
              THEN [h1 EXCEPT !.inst[taskInstance].expectsLinkedYield = TRUE]
              ELSE h1
        h3 == IF destr[tk[t].context]
              THEN cancel(h2, taskInstance, CancelReason, CANCEL_KIND_EXPLICIT)
              ELSE h2
    IN schedulerPerform(h3, tk[t].scheduler, taskInstance)

performShared(h, tk, destr, t, args, performType, linkedObject) ==
    LET fullArgs == IF tk[t].curryArgs # Undefined
                    THEN tk[t].curryArgs \o args ELSE args
        \* the factory takes (args, performType): linkedObject is dropped
        h1 == dispatchTaskInstanceFactory(h, tk, t, fullArgs, performType)
        taskInstance == Len(h1.inst)
        h2 == IF performType = PERFORM_TYPE_LINKED
              THEN [h1 EXCEPT !.inst[linkedObject].expectsLinkedYield = TRUE]
              ELSE h1
        h3 == IF destr[tk[t].context]
              THEN cancel(h2, taskInstance, CancelReason, CANCEL_KIND_EXPLICIT)
              ELSE h2
    IN schedulerPerform(h3, tk[t].scheduler, taskInstance)

perform(h, tk, destr, t, args) ==
    performShared(h, tk, destr, t, args, PERFORM_TYPE_DEFAULT, null)

\* a clone built without running the constructor's registration
clone_Unregistered(w, destr, t) ==
    [w EXCEPT !.tasks = Append(@, [w.tasks[t] EXCEPT !.class = TaskClass,
                                                     !.curryArgs = Undefined,
                                                     !.taskObj = NoTaskObj]),
              !.ts = Append(@, InitialTaskState)]

\* _clone(): new Task({ context, group, name, scheduler, ... })
clone(w, destr, t) ==
    TaskConstructor(w, destr,
        [context |-> w.tasks[t].context, group |-> w.tasks[t].group,
         name |-> w.tasks[t].name, scheduler |-> w.tasks[t].scheduler])

\* a curry that forgets the receiver's own curried arguments
curry_DropsInherited(w, destr, t, args) ==
    LET w1 == clone(w, destr, t)
        task == Len(w1.tasks)
    IN [w1 EXCEPT !.tasks[task].curryArgs = args]

\* a curry that also stores the extended list on the receiver
curry_MutatesReceiver(w, destr, t, args) ==
    LET w1 == clone(w, destr, t)
        task == Len(w1.tasks)
        own == IF w.tasks[t].curryArgs # Undefined THEN w.tasks[t].curryArgs ELSE <<>>
    IN [w1 EXCEPT !.tasks[task].curryArgs = own \o args,
                  !.tasks[t].curryArgs = own \o args]

curry(w, destr, t, args) ==
    LET w1 == clone(w, destr, t)
        task == Len(w1.tasks)
        own == IF w.tasks[t].curryArgs # Undefined THEN w.tasks[t].curryArgs ELSE <<>>
    IN [w1 EXCEPT !.tasks[task].curryArgs = own \o args]

\* ------------------------------------------------------------ state
Heap ==
    [inst |-> instances, ts |-> taskState, log |-> completed, sched |-> sched,
     impls |-> impls, states |-> encapsulatedTaskStates,
     proxyOf |-> encapsulatedTaskInstanceProxies, proxies |-> proxies,
     returned |-> returned, admitted |-> admitted]
World ==
    [tasks |-> tasks, ts |-> taskState, dtors |-> destructors,
     states |-> encapsulatedTaskStates, proxyOf |-> encapsulatedTaskInstanceProxies]

SetHeap(h) ==
    /\ instances' = h.inst
    /\ taskState' = h.ts
    /\ completed' = h.log
    /\ sched' = h.sched
    /\ impls' = h.impls
    /\ encapsulatedTaskStates' = h.states
    /\ encapsulatedTaskInstanceProxies' = h.proxyOf
    /\ proxies' = h.proxies
    /\ returned' = h.returned
    /\ admitted' = h.admitted

NoWorld ==
    [tasks |-> <<>>, ts |-> <<>>, dtors |-> [o \in Owners |-> <<>>],
     states |-> <<>>, proxyOf |-> <<>>]

NotDestroying == [o \in Owners |-> FALSE]

InitWorld ==
    LET w1 == TaskConstructor(NoWorld, NotDestroying,
                  [context |-> "o1", name |-> "t1", scheduler |-> 1, group |-> null])
    IN TaskConstructor(w1, NotDestroying,
                  [context |-> "o2", name |-> "t2", scheduler |-> 2, group |-> null])

\* the task object of an encapsulated task: a field and the work routine
TaskObj == (str("progress") :> 0) @@ (str("perform") :> Method)

\* t1 an encapsulated task on o1, t2 a plain task on o2
InitEncapWorld ==
    LET w1 == EncapsulatedTaskConstructor(NoWorld, NotDestroying,
                  [context |-> "o1", name |-> "t1", scheduler |-> 1, group |-> null,
                   taskObj |-> TaskObj])
    IN TaskConstructor(w1, NotDestroying,
                  [context |-> "o2", name |-> "t2", scheduler |-> 2, group |-> null])

InitFrom(w) ==
    /\ tasks = w.tasks
    /\ taskState = w.ts
    /\ destructors = w.dtors
    /\ encapsulatedTaskStates = w.states
    /\ encapsulatedTaskInstanceProxies = w.proxyOf
    /\ destroying = NotDestroying
    /\ instances = <<>>
    /\ sched = [s \in {1, 2} |-> <<>>]
    /\ completed = <<>>
    /\ curryLog = <<[receiver |-> null, args |-> <<>>], [receiver |-> null, args |-> <<>>]>>
    /\ calls = <<>>
    /\ impls = <<>>
    /\ proxies = <<>>
    /\ returned = <<>>
    /\ admitted = <<>>
    /\ viewLog = <<>>

Init == InitFrom(InitWorld)

InitEncap == InitFrom(InitEncapWorld)

\* ---------------------------------------------------------- actions
Call(t, args, performType, linkedObject) ==
    [task |-> t, args |-> args, performType |-> performType, linkedObject |-> linkedObject,
     ownerDestroying |-> destroying[tasks[t].context]]

\* task.perform(...args)
Perform(t, args) ==
    /\ SetHeap(perform(Heap, tasks, destroying, t, args))
    /\ calls' = Append(calls, Call(t, args, PERFORM_TYPE_DEFAULT, null))
    /\ UNCHANGED <<tasks, destroying, destructors, curryLog, viewLog>>

\* task.linked().perform(...args), from within the work routine of p
PerformLinked(t, p, args) ==
    /\ instances[p].state = Running
    /\ SetHeap(performShared(Heap, tasks, destroying, t, args, PERFORM_TYPE_LINKED, p))
    /\ calls' = Append(calls, Call(t, args, PERFORM_TYPE_LINKED, p))
    /\ UNCHANGED <<tasks, destroying, destructors, curryLog, viewLog>>

\* task.unlinked().perform(...args), from within the work routine of p
PerformUnlinked(t, p, args) ==
    /\ instances[p].state = Running
    /\ SetHeap(performShared(Heap, tasks, destroying, t, args, PERFORM_TYPE_UNLINKED, p))
    /\ calls' = Append(calls, Call(t, args, PERFORM_TYPE_UNLINKED, p))
    /\ UNCHANGED <<tasks, destroying, destructors, curryLog, viewLog>>

\* task.curry(...args)
Curry(t, args) ==
    /\ LET w == curry(World, destroying, t, args)
       IN /\ tasks' = w.tasks
          /\ taskState' = w.ts
          /\ destructors' = w.dtors
          /\ encapsulatedTaskStates' = w.states
          /\ encapsulatedTaskInstanceProxies' = w.proxyOf
    /\ curryLog' = Append(curryLog, [receiver |-> t, args |-> args])
    /\ UNCHANGED <<destroying, instances, sched, completed, calls, impls, proxies,
                   returned, admitted, viewLog>>

\* task.cancelAll({ resetState })
CancelAll(t, resetState) ==
    /\ SetHeap(cancelAll(Heap, t, CancelAllReason, CANCEL_KIND_EXPLICIT, resetState))
    /\ UNCHANGED <<tasks, destroying, destructors, curryLog, calls, viewLog>>

\* taskInstance.cancel()
CancelInstance(i) ==
    /\ SetHeap(cancel(Heap, i, CancelReason, CANCEL_KIND_EXPLICIT))
    /\ UNCHANGED <<tasks, destroying, destructors, curryLog, calls, viewLog>>

RECURSIVE runDestructors(_, _)
runDestructors(h, ds) ==
    IF ds = <<>> THEN h ELSE runDestructors(destructor(h, Head(ds)), Tail(ds))

\* the owner begins destruction: its registered destructors run
DestroyOwner(o) ==
    /\ ~destroying[o]
    /\ destroying' = [destroying EXCEPT ![o] = TRUE]
    /\ SetHeap(runDestructors(Heap, destructors[o]))
    /\ UNCHANGED <<tasks, destructors, curryLog, calls, viewLog>>

\* the scheduler starts an instance it was handed
SchedulerStart(s, i) ==
    /\ \E k \in 1..Len(sched[s]) : sched[s][k] = i
    /\ SetHeap(start(Heap, i))
    /\ UNCHANGED <<tasks, destroying, destructors, curryLog, calls, viewLog>>

\* the executor reports the work routine's outcome; a routine suspended at
\* the yield of a child does not run to its end before the child has finished
ExecutorFinish(i, outcome) ==
    /\ instances[i].state = Running
    /\ \A c \in InstanceIds : instances[c].parent = i => isFinished(instances[c])
    /\ SetHeap(finalize(Heap, i, outcome))
    /\ UNCHANGED <<tasks, destroying, destructors, curryLog, calls, viewLog>>

\* the work routine of p yields the child c it performed
Yield(p, c) ==
    /\ calls[c].linkedObject = p
    /\ instances[p].state = Running
    /\ instances[c].parent = null
    /\ SetHeap(onYielded(Heap, p, c))
    /\ UNCHANGED <<tasks, destroying, destructors, curryLog, calls, viewLog>>

\* a holder of the task asks for the merged view of one of its instances
WrapInstance(t, i) ==
    /\ tasks[t].class = EncapsulatedTaskClass
    /\ instances[i].task = t
    /\ LET h == wrappedEncapsulatedTaskInstance(Heap, t, i)
       IN /\ SetHeap(h)
          /\ viewLog' = Append(viewLog, [task |-> t, instance |-> i,
                                         view |-> h.proxyOf[t][i]])
    /\ UNCHANGED <<tasks, destroying, destructors, curryLog, calls>>

\* a caller assigns view[prop] = v
ViewSet(p, prop, v) ==
    /\ LET i == proxies[p].target
           d == proxies[p].encapsulatedTaskImpl
           r == proxySet(InstanceObject(instances[i]), impls[d], prop, v)
       IN /\ instances' = [instances EXCEPT ![i].own = r.obj.own]
          /\ impls' = [impls EXCEPT ![d] = r.impl]
    /\ UNCHANGED <<tasks, taskState, destroying, destructors, sched, completed, curryLog,
                   calls, encapsulatedTaskStates, encapsulatedTaskInstanceProxies,
                   proxies, returned, admitted, viewLog>>

\* the work routine, running with the delegate as this, assigns this[prop] = v
DelegateSet(i, prop, v) ==
    /\ instances[i].state = Running
    /\ instances[i].executor.holder = "delegate"
    /\ impls' = [impls EXCEPT ![instances[i].executor.of] =
                                  ReflectDefineProperty(@, prop, v)]
    /\ UNCHANGED <<tasks, taskState, destroying, destructors, instances, sched, completed,
                   curryLog, calls, encapsulatedTaskStates,
                   encapsulatedTaskInstanceProxies, proxies, returned, admitted, viewLog>>

Room(n) == Len(instances) < n

Next ==
    \/ \E t \in TaskIds, args \in OneCall : Room(MaxInstances) /\ Perform(t, args)
    \/ \E t \in TaskIds, p \in InstanceIds, args \in OneCall :
           Room(MaxInstances) /\ PerformLinked(t, p, args)
    \/ \E t \in TaskIds, p \in InstanceIds, args \in OneCall :
           Room(MaxInstances) /\ PerformUnlinked(t, p, args)
    \/ \E t \in TaskIds, args \in OneCurry : Len(tasks) < MaxTasks /\ Curry(t, args)
    \/ \E t \in TaskIds, resetState \in BOOLEAN : CancelAll(t, resetState)
    \/ \E i \in InstanceIds : CancelInstance(i)
    \/ \E o \in Owners : DestroyOwner(o)
    \/ \E s \in DOMAIN sched, i \in InstanceIds : SchedulerStart(s, i)
    \/ \E i \in InstanceIds, outcome \in {Succeeded, Errored} : ExecutorFinish(i, outcome)
    \/ \E p \in InstanceIds, c \in InstanceIds : Yield(p, c)

Spec == Init /\ [][Next]_vars

\* One task (t1 on o1), longer histories: three instances, chains of links.
DeepTasks == {1}

NextDeep ==
    \/ \E t \in DeepTasks, args \in OneCall : Room(MaxDeepInstances) /\ Perform(t, args)
    \/ \E t \in DeepTasks, p \in InstanceIds, args \in OneCall :
           Room(MaxDeepInstances) /\ PerformLinked(t, p, args)
    \/ \E t \in DeepTasks, p \in InstanceIds, args \in OneCall :
           Room(MaxDeepInstances) /\ PerformUnlinked(t, p, args)
    \/ \E t \in DeepTasks, resetState \in BOOLEAN : CancelAll(t, resetState)
    \/ \E i \in InstanceIds : CancelInstance(i)
    \/ DestroyOwner("o1")
    \/ \E s \in DOMAIN sched, i \in InstanceIds : SchedulerStart(s, i)
    \/ \E i \in InstanceIds, outcome \in {Succeeded, Errored} : ExecutorFinish(i, outcome)
    \/ \E p \in InstanceIds, c \in InstanceIds : Yield(p, c)

SpecDeep == Init /\ [][NextDeep]_vars

\* Curry chains: every curry and call argument list, performs on every clone.
NextCurry ==
    \/ \E t \in TaskIds, args \in CallArgLists :
           Room(MaxCurryInstances) /\ Perform(t, args)
    \/ \E t \in TaskIds, args \in CurryArgLists :
           Len(tasks) < MaxCurryTasks /\ Curry(t, args)
    \/ \E o \in Owners : DestroyOwner(o)

SpecCurry == Init /\ [][NextCurry]_vars

\* An encapsulated task t1, a plain task t2 and their curried clones:
\* performs, and requests for the merged views of the instances.
NextEncap ==
    \/ \E t \in TaskIds, args \in OneCall : Room(MaxEncapInstances) /\ Perform(t, args)
    \/ \E t \in TaskIds, args \in OneCurry : Len(tasks) < MaxEncapTasks /\ Curry(t, args)
    \/ \E t \in TaskIds, i \in InstanceIds :
           Len(viewLog) < MaxViewRequests /\ WrapInstance(t, i)
    \/ \E o \in Owners : DestroyOwner(o)

SpecEncap == InitEncap /\ [][NextEncap]_vars

\* One instance of the encapsulated task: what the caller writes through the
\* merged view and what the work routine writes on its delegate.
EncapTasks == {1}

NextView ==
    \/ \E t \in EncapTasks, args \in OneCall : Room(MaxViewInstances) /\ Perform(t, args)
    \/ \E s \in DOMAIN sched, i \in InstanceIds : SchedulerStart(s, i)
    \/ \E p \in 1..Len(proxies), prop \in ViewWriteKeys : ViewSet(p, prop, ViewWriteValue)
    \/ \E i \in InstanceIds, prop \in DelegateWriteKeys :
           DelegateSet(i, prop, DelegateWriteValue)
    \/ \E i \in InstanceIds, outcome \in {Succeeded, Errored} : ExecutorFinish(i, outcome)

SpecView == InitEncap /\ [][NextView]_vars

\* ------------------------------------------------------------ claims
OwnerOf(i) == tasks[instances[i].task].context
IsClone(t) == curryLog[t].receiver # null
Handed(i) == \E s \in DOMAIN sched : \E k \in 1..Len(sched[s]) : sched[s][k] = i

\* C1: when an owner begins destruction, every instance of a task bound to it
\* (the original or a curried clone) that is Waiting or Running at that moment
\* becomes Canceled with source LifespanEnd in that step, and stays so.
C1_OwnerDestructionCancels ==
    [][/\ \A o \in Owners : (~destroying[o] /\ destroying'[o]) =>
             \A i \in InstanceIds :
                 (OwnerOf(i) = o /\ ~isFinished(instances[i])) =>
                     /\ instances'[i].state = Canceled
                     /\ instances'[i].cancelKind = CANCEL_KIND_LIFESPAN_END
                     /\ instances'[i].cancelReason = LifespanReason
       /\ \A i \in InstanceIds :
             (instances[i].state = Canceled
                 /\ instances[i].cancelKind = CANCEL_KIND_LIFESPAN_END) =>
                     /\ instances'[i].state = Canceled
                     /\ instances'[i].cancelKind = CANCEL_KIND_LIFESPAN_END]_vars

\* two instances, one of the original task and one of its curried clone,
\* were live when their owner was destroyed
C1_Witness ==
    \E i \in InstanceIds, j \in InstanceIds :
        /\ IsClone(instances[j].task) /\ curryLog[instances[j].task].receiver = instances[i].task
        /\ destroying[OwnerOf(i)]
        /\ ~calls[i].ownerDestroying /\ ~calls[j].ownerDestroying
        /\ instances[i].cancelKind = CANCEL_KIND_LIFESPAN_END
        /\ instances[j].cancelKind = CANCEL_KIND_LIFESPAN_END

\* C2: an instance performed (default, linked or unlinked) while its task's
\* owner was destroying is Canceled when perform returns and in every later
\* state: it never runs, whatever the scheduler does with it.
C2_PerformWhileDestroying ==
    \A i \in InstanceIds : calls[i].ownerDestroying => instances[i].state = Canceled

\* a linked perform on a task of a destroyed owner, handed to its scheduler
C2_Witness ==
    \E i \in InstanceIds :
        /\ calls[i].ownerDestroying
        /\ calls[i].performType = PERFORM_TYPE_LINKED
        /\ instances[i].state = Canceled
        /\ Handed(i)

\* the instances reachable from S over recorded parent edges whose child was
\* performed as Linked
RECURSIVE Reach(_)
Reach(S) ==
    LET N == S \cup {c \in InstanceIds : /\ instances[c].parent \in S
                                         /\ calls[c].performType = PERFORM_TYPE_LINKED}
    IN IF N = S THEN S ELSE Reach(N)

LinkedDescendants(p) == Reach({p}) \ {p}

Occurrences(log, i) == Cardinality({k \in 1..Len(log) : log[k] = i})

\* C4: an instance is canceled at most once: the first trigger (explicit
\* cancel or cancelAll, owner destruction, parent cascade) that reaches it
\* while non-terminal records reason and source, and no later step changes
\* its state, reason or source; a cancel of a terminal instance changes
\* nothing of it.  Reason and source are set exactly on Canceled instances.
C4_CancelOnce ==
    [][\A i \in InstanceIds :
          /\ isFinished(instances[i]) =>
                /\ instances'[i].state = instances[i].state
                /\ instances'[i].cancelReason = instances[i].cancelReason
                /\ instances'[i].cancelKind = instances[i].cancelKind
          /\ (instances'[i].state = Canceled) <=> (instances'[i].cancelKind # NoKind)
          /\ (instances'[i].state = Canceled) <=> (instances'[i].cancelReason # NoReason)
          /\ Occurrences(completed', i) <= 1]_vars

\* C was canceled explicitly; later its parent P was canceled by the owner's
\* destruction and the cascade reached C, which kept its reason
C4_Witness ==
    \E p \in InstanceIds, c \in InstanceIds :
        /\ instances[c].parent = p /\ calls[c].performType = PERFORM_TYPE_LINKED
        /\ instances[c].state = Canceled /\ instances[c].cancelReason = CancelReason
        /\ instances[p].state = Canceled
        /\ instances[p].cancelKind = CANCEL_KIND_LIFESPAN_END

AllowedTransitions ==
    {<<Waiting, Running>>, <<Waiting, Canceled>>,
     <<Running, Succeeded>>, <<Running, Errored>>, <<Running, Canceled>>}

\* C5: the state of an instance only moves Waiting -> Running ->
\* {Succeeded, Errored, Canceled} or Waiting -> Canceled; a terminal state
\* is never left.
C5_ForwardOnly ==
    [][/\ \A i \in InstanceIds :
             \/ instances'[i].state = instances[i].state
             \/ <<instances[i].state, instances'[i].state>> \in AllowedTransitions
       /\ \A i \in (1..Len(instances')) \ InstanceIds :
             instances'[i].state \in {Waiting, Canceled}]_vars

\* instances in each terminal state, all in the hands of a scheduler
C5_Witness ==
    \E i \in InstanceIds, j \in InstanceIds :
        /\ instances[i].state \in {Succeeded, Errored}
        /\ instances[j].state = Canceled
        /\ Handed(i) /\ Handed(j)

RECURSIVE CurryChain(_)
CurryChain(t) ==
    IF curryLog[t].receiver = null THEN <<>>
    ELSE CurryChain(curryLog[t].receiver) \o curryLog[t].args

\* C7: the args of every instance are the curried arguments of the whole
\* chain of curry calls behind its task, in call order, followed by the
\* arguments of the perform call.
C7_ArgsAreCurriedThenCall ==
    \A i \in InstanceIds :
        instances[i].args = CurryChain(calls[i].task) \o calls[i].args

\* T.curry(1).curry(2).perform(3)
C7_Witness ==
    \E i \in InstanceIds :
        /\ instances[i].args = <<1, 2, 3>>
        /\ calls[i].args = <<3>>
        /\ IsClone(calls[i].task)
        /\ IsClone(curryLog[calls[i].task].receiver)

\* C8: a curry call adds one new Task with the receiver's name, owner and
\* scheduler and leaves every existing Task, the receiver included, as it
\* was; a perform on a Task uses that Task's own curried arguments, whatever
\* was curried from it since.
C8_CurryLeavesReceiver ==
    [][/\ Len(tasks') # Len(tasks) =>
             LET new == Len(tasks')
                 receiver == curryLog'[new].receiver
             IN /\ new = Len(tasks) + 1
                /\ receiver \in TaskIds
                /\ \A t \in TaskIds : tasks'[t] = tasks[t] /\ taskState'[t] = taskState[t]
                /\ tasks'[new].name = tasks[receiver].name
                /\ tasks'[new].context = tasks[receiver].context
                /\ tasks'[new].scheduler = tasks[receiver].scheduler
       /\ Len(instances') # Len(instances) =>
             LET i == Len(instances')
                 t == calls'[i].task
             IN instances'[i].args = CurryChain(t) \o calls'[i].args]_vars

\* an original Task still without curried arguments after a clone of it and
\* a clone of that clone were made, and a perform on the original
C8_Witness ==
    \E t \in TaskIds, i \in InstanceIds :
        /\ IsClone(t) /\ IsClone(curryLog[t].receiver)
        /\ curryLog[curryLog[t].receiver].receiver = calls[i].task
        /\ tasks[calls[i].task].curryArgs = Undefined
        /\ instances[i].args = calls[i].args

\* the completions of task t, oldest first, that ended in one of the states S
\* (since the task's state was last reset)
CompletionsOf(t, S) ==
    SelectSeq(completed, LAMBDA i : instances[i].task = t /\ instances[i].state \in S)

LastOf(log) == IF log = <<>> THEN null ELSE log[Len(log)]

\* the instances of t performed since the task's state was last reset
Performed(t) ==
    {i \in InstanceIds : /\ instances[i].task = t
                         /\ \/ ~isFinished(instances[i])
                            \/ Occurrences(completed, i) > 0}

\* C9: lastSuccessful, lastErrored and lastCanceled are the most recent
\* instance of the task that reached that state, whatever ended later;
\* lastComplete is the most recent one to reach any terminal state and
\* performCount the number of performs.  Three performs ending succeeded,
\* errored, canceled in that order give lastSuccessful = 1st,
\* lastErrored = 2nd, lastCanceled = lastComplete = 3rd, performCount = 3
\* and an idle task.
C9_LastOfEachOutcome ==
    \A t \in TaskIds :
        /\ taskState[t].lastSuccessful = LastOf(CompletionsOf(t, {Succeeded}))
        /\ taskState[t].lastErrored = LastOf(CompletionsOf(t, {Errored}))
        /\ taskState[t].lastCanceled = LastOf(CompletionsOf(t, {Canceled}))
        /\ taskState[t].lastComplete = LastOf(CompletionsOf(t, Terminal))
        /\ taskState[t].performCount = Cardinality(Performed(t))
        /\ (/\ CompletionsOf(t, Terminal) = <<1, 2, 3>>
            /\ instances[1].state = Succeeded
            /\ instances[2].state = Errored
            /\ instances[3].state = Canceled
            /\ Len(instances) = 3) =>
               /\ taskState[t].lastSuccessful = 1
               /\ taskState[t].lastErrored = 2
               /\ taskState[t].lastCanceled = 3
               /\ taskState[t].lastComplete = 3
               /\ taskState[t].performCount = 3
               /\ isIdle(taskState, t)

\* three performs of one task that ended succeeded, errored, canceled
C9_Witness ==
    /\ Len(instances) = 3
    /\ \A i \in InstanceIds : instances[i].task = 1
    /\ completed = <<1, 2, 3>>
    /\ instances[1].state = Succeeded
    /\ instances[2].state = Errored
    /\ instances[3].state = Canceled

InState(t, st) == \E i \in InstanceIds : instances[i].task = t /\ instances[i].state = st

\* C10: in every state isRunning holds exactly when an instance of the task
\* is Running, isQueued exactly when one is Waiting, isIdle exactly when
\* neither holds, and state is "running", "queued" or "idle" accordingly,
\* "running" winning over "queued".
C10_SummariesFollowInstances ==
    \A t \in TaskIds :
        /\ isRunning(taskState, t) <=> InState(t, Running)
        /\ isQueued(taskState, t) <=> InState(t, Waiting)
        /\ isIdle(taskState, t) <=> (~InState(t, Running) /\ ~InState(t, Waiting))
        /\ state(taskState, t) =
              IF InState(t, Running) THEN "running"
              ELSE IF InState(t, Waiting) THEN "queued" ELSE "idle"

\* a task with one instance running and another queued
C10_Witness ==
    \E t \in TaskIds :
        /\ InState(t, Running) /\ InState(t, Waiting)
        /\ state(taskState, t) = "running"
        /\ isQueued(taskState, t)

\* the summaries of task t that a cancelAll without resetState may not touch
KeptSummaries(ts, t) ==
    <<ts[t].performCount, ts[t].last, ts[t].lastPerformed,
      ts[t].lastSuccessful, ts[t].lastErrored>>

\* C11: cancelAll(t) with resetState = true leaves every summary of t
\* (the last* properties, performCount) at its initial value and cancels the
\* live instances of t, while no instance loses its args, task or perform
\* kind and an instance that was already finished keeps all its fields;
\* cancelAll with resetState = false (the explicit call, and the call made
\* by the owner's destructor) leaves performCount, last, lastPerformed,
\* lastSuccessful and lastErrored as they were, and lastCanceled and
\* lastComplete change only to an instance canceled by the call.
C11_ResetStateClearsSummaries ==
    [][\A t \in TaskIds :
          /\ CancelAll(t, TRUE) =>
                /\ taskState'[t] = InitialTaskState
                /\ \A i \in liveInstances(Heap, t) : instances'[i].state = Canceled
                /\ \A i \in InstanceIds :
                      /\ instances'[i].args = instances[i].args
                      /\ instances'[i].task = instances[i].task
                      /\ instances'[i].performType = instances[i].performType
                      /\ isFinished(instances[i]) => instances'[i] = instances[i]
          /\ (\/ CancelAll(t, FALSE)
              \/ ~destroying[tasks[t].context] /\ destroying'[tasks[t].context]) =>
                /\ KeptSummaries(taskState', t) = KeptSummaries(taskState, t)
                /\ taskState'[t].lastCanceled \in
                      {taskState[t].lastCanceled} \cup liveInstances(Heap, t)
                /\ taskState'[t].lastComplete \in
                      {taskState[t].lastComplete} \cup liveInstances(Heap, t)
                /\ liveInstances(Heap, t) = {} => taskState'[t] = taskState[t]]_vars

\* a task reset after two performs: one instance had succeeded, the other
\* was canceled by the resetting cancelAll; the summaries are initial again
C11_Witness ==
    \E t \in TaskIds, i \in InstanceIds, j \in InstanceIds :
        /\ instances[i].task = t /\ instances[j].task = t
        /\ instances[i].state = Succeeded
        /\ instances[j].state = Canceled /\ instances[j].cancelReason = CancelAllReason
        /\ taskState[t] = InitialTaskState

\* the two objects behind the merged view p, given the instances and the
\* delegates of a state
ViewTarget(insts, p) == InstanceObject(insts[proxies[p].target])
ViewDelegate(imps, p) == imps[proxies[p].encapsulatedTaskImpl]
ProxyIds == 1..Len(proxies)

\* C12: through the merged view, reading a key gives the instance's value
\* when the instance has the key and the delegate's value otherwise; writing
\* a key changes the instance when the instance already has the key and
\* otherwise changes only the delegate, the instance's own storage staying
\* without that key.  (Delegate progress = 0: the read gives 0; after writing
\* progress = 5 the delegate holds 5 and the instance has no progress.)
C12_MergedViewReadsAndWrites ==
    [][\A p \in ProxyIds :
          LET obj == ViewTarget(instances, p)
              impl == ViewDelegate(impls, p)
              obj2 == ViewTarget(instances', p)
              impl2 == ViewDelegate(impls', p)
          IN /\ \A prop \in Keys :
                   proxyGet(obj2, impl2, prop) =
                       IF In(obj2, prop) THEN GetProp(obj2, prop)
                       ELSE GetProp(impl2, prop)
             /\ \A prop \in ViewWriteKeys : ViewSet(p, prop, ViewWriteValue) =>
                   IF In(obj, prop)
                   THEN /\ obj2.own[prop] = ViewWriteValue
                        /\ impl2 = impl
                   ELSE /\ impl2.own[prop] = ViewWriteValue
                        /\ obj2 = obj
                        /\ ~HasOwn(obj2, prop)]_vars

NoDuplicates(seq) == \A m \in 1..Len(seq), n \in 1..Len(seq) : seq[m] = seq[n] => m = n

\* C13: enumerating the merged view yields the union of the own keys of the
\* instance and of the delegate, each key once also when both own a key of
\* that name, and has(key) is true exactly when the instance or the
\* delegate has the key.
C13_EnumerationIsTheUnion ==
    \A p \in ProxyIds :
        LET obj == ViewTarget(instances, p)
            impl == ViewDelegate(impls, p)
            keys == proxyOwnKeys(obj, impl)
        IN /\ {keys[n] : n \in 1..Len(keys)} = DOMAIN obj.own \cup DOMAIN impl.own
           /\ NoDuplicates(keys)
           /\ \A prop \in Keys :
                 proxyHas(obj, impl, prop) <=> (In(obj, prop) \/ In(impl, prop))

\* the instances made by a task of class EncapsulatedTask
EncapsulatedInstances ==
    {i \in InstanceIds : tasks[instances[i].task].class = EncapsulatedTaskClass}

\* C14: each perform of an encapsulated task makes one fresh delegate, bound
\* to the new instance and to no other, and one merged view of that
\* instance; every later request for the view of an instance, in any order
\* and however often, gives the very view perform returned, and two
\* instances never have the same view.
C14_OneDelegateOneView ==
    /\ Len(impls) = Cardinality(EncapsulatedInstances)
    /\ Len(proxies) = Cardinality(EncapsulatedInstances)
    /\ \A i \in EncapsulatedInstances :
          LET t == instances[i].task
          IN /\ i \in DOMAIN encapsulatedTaskStates[t]
             /\ i \in DOMAIN encapsulatedTaskInstanceProxies[t]
             /\ returned[i] = ProxyRef(encapsulatedTaskInstanceProxies[t][i])
             /\ proxies[returned[i].id].target = i
             /\ proxies[returned[i].id].encapsulatedTaskImpl = encapsulatedTaskStates[t][i]
             /\ instances[i].executor =
                   DelegateRoutine(encapsulatedTaskStates[t][i], instances[i].args)
    /\ \A i \in EncapsulatedInstances, j \in EncapsulatedInstances :
          i # j =>
             /\ encapsulatedTaskStates[instances[i].task][i]
                   # encapsulatedTaskStates[instances[j].task][j]
             /\ returned[i] # returned[j]
    /\ \A i \in InstanceIds \ EncapsulatedInstances : returned[i] = InstanceRef(i)
    /\ \A n \in 1..Len(viewLog) :
          viewLog[n].view = returned[viewLog[n].instance].id

\* the views of two instances were requested, the first one again after the
\* second: three answers, two distinct views
C14_Witness ==
    /\ Len(viewLog) = 3
    /\ viewLog[1].instance = viewLog[3].instance
    /\ viewLog[1].instance # viewLog[2].instance
    /\ viewLog[1].view = viewLog[3].view
    /\ viewLog[1].view # viewLog[2].view

\* the task a chain of curry calls started from
RECURSIVE Origin(_)
Origin(t) == IF curryLog[t].receiver = null THEN t ELSE Origin(curryLog[t].receiver)

\* C19: currying keeps the task variant: a perform on an encapsulated task
\* or on any task curried from one makes one fresh delegate for the new
\* instance, runs the delegate's work routine with the curried arguments
\* followed by the call arguments, and returns the merged view of the
\* instance.
C19_CurryKeepsEncapsulation ==
    \A i \in InstanceIds :
        tasks[Origin(calls[i].task)].class = EncapsulatedTaskClass =>
            /\ instances[i].executor.holder = "delegate"
            /\ instances[i].executor.args = CurryChain(calls[i].task) \o calls[i].args
            /\ instances[i].executor.of \in 1..Len(impls)
            /\ \A j \in InstanceIds \ {i} :
                  instances[j].executor # instances[i].executor
            /\ returned[i].kind = "Proxy"
            /\ proxies[returned[i].id].target = i

AdmissionsOf(i) == {n \in 1..Len(admitted) : admitted[n].instance = i}

\* C15: every perform (default, linked, unlinked) hands the instance it
\* created to the task's scheduler exactly once, and no later step hands it
\* over again; when the owner was destroying, the instance was already
\* Canceled at the hand-over, otherwise it was handed over Waiting.
C15_HandedOverOnce ==
    \A i \in InstanceIds :
        /\ Cardinality(AdmissionsOf(i)) = 1
        /\ Occurrences(sched[tasks[instances[i].task].scheduler], i) = 1
        /\ \A s \in DOMAIN sched :
              s # tasks[instances[i].task].scheduler => Occurrences(sched[s], i) = 0
        /\ \A n \in AdmissionsOf(i) :
              admitted[n].state = IF calls[i].ownerDestroying THEN Canceled ELSE Waiting

\* an instance performed on a destroyed owner's task, in its scheduler's
\* hands, next to one that was handed over Waiting and has run since
C15_Witness ==
    \E n \in 1..Len(admitted), m \in 1..Len(admitted) :
        /\ calls[admitted[n].instance].ownerDestroying
        /\ admitted[n].state = Canceled
        /\ Handed(admitted[n].instance)
        /\ admitted[m].state = Waiting
        /\ instances[admitted[m].instance].state \in {Succeeded, Errored}

\* C16 as claimed: expectsLinkedYield is true on an instance exactly when it
\* was created by a linked perform; no perform sets it on another instance,
\* the parent passed to the call included.
C16_FlagOnNewInstance ==
    \A i \in InstanceIds :
        instances[i].expectsLinkedYield <=> calls[i].performType = PERFORM_TYPE_LINKED

\* C16 as amended: a linked perform sets expectsLinkedYield on the parent
\* instance passed to the call and leaves it false on the instance it
\* creates; a default or unlinked perform changes the flag of no instance
\* and creates an instance with the flag false.
C16_FlagOnParent ==
    [][Len(instances') # Len(instances) =>
          LET new == Len(instances')
              call == calls'[new]
          IN /\ ~instances'[new].expectsLinkedYield
             /\ \A i \in InstanceIds :
                   instances'[i].expectsLinkedYield =
                       IF call.performType = PERFORM_TYPE_LINKED /\ call.linkedObject = i
                       THEN TRUE
                       ELSE instances[i].expectsLinkedYield]_vars

\* a parent flagged by the linked perform it made, and the child unflagged
C16_Witness ==
    \E p \in InstanceIds, c \in InstanceIds :
        /\ calls[c].performType = PERFORM_TYPE_LINKED
        /\ calls[c].linkedObject = p
        /\ instances[p].expectsLinkedYield
        /\ ~instances[c].expectsLinkedYield

\* C17: a linked or unlinked perform records child.parent = parentInstance
\* on the new instance at creation, so that every state from the return of
\* perform on shows it and a cancel of the parent before the child has
\* started cancels a Linked child with it; a default perform records no
\* parent.
C17_ParentRecordedAtCreation ==
    [][/\ \A i \in 1..Len(instances') :
             instances'[i].parent =
                 IF calls'[i].performType = PERFORM_TYPE_DEFAULT THEN null
                 ELSE calls'[i].linkedObject
       /\ \A p \in InstanceIds : (CancelInstance(p) /\ ~isFinished(instances[p])) =>
             \A c \in InstanceIds :
                 (/\ calls[c].performType = PERFORM_TYPE_LINKED
                  /\ calls[c].linkedObject = p
                  /\ instances[c].state = Waiting) => instances'[c].state = Canceled]_vars

MostRecent(S) == IF S = {} THEN null ELSE CHOOSE i \in S : \A j \in S : j <= i

\* C18 as claimed: last is the most recently created instance of the task,
\* also while that instance is still Waiting.
C18_LastIsMostRecentlyCreated ==
    \A t \in TaskIds : taskState[t].last = MostRecent(Performed(t))

\* the instances of t that start in the step
Starting(t) ==
    {i \in InstanceIds : /\ instances[i].task = t
                         /\ instances[i].state = Waiting
                         /\ instances'[i].state = Running}

\* C18 as amended: lastPerformed is the most recently created instance of
\* the task, also while that instance is still Waiting; last is the most
\* recently started one: it becomes an instance when that instance starts
\* and is otherwise changed only by a resetting cancelAll.
C18_LastPerformedAndLastStarted ==
    [][\A t \in TaskIds :
          /\ taskState'[t].lastPerformed = MostRecent(Performed(t))'
          /\ IF Starting(t) # {} THEN taskState'[t].last \in Starting(t)
             ELSE \/ taskState'[t].last = taskState[t].last
                  \/ CancelAll(t, TRUE) /\ taskState'[t].last = null]_vars

\* the first instance has started, the second still waits: last is the
\* first, lastPerformed the second
C18_Witness ==
    \E t \in TaskIds, i \in InstanceIds, j \in InstanceIds :
        /\ i < j
        /\ instances[i].task = t /\ instances[j].task = t
        /\ instances[j].state = Waiting
        /\ taskState[t].last = i
        /\ taskState[t].lastPerformed = j

====
